---- MODULE Spec2Model ----
(***************************************************************************)
(* Temporal Context Model tutorial (src/demos/tcm/index.tsx).              *)
(*                                                                         *)
(* The page is a React application of four slides; only the current slide  *)
(* is mounted.  Three slides carry the simulation:                         *)
(*   DriftSimulator      context / history / step, sliders for rho, beta   *)
(*   RetrievalRecency    a fixed six item run probed at the end of list    *)
(*   RetrievalContiguity a fixed six item run probed at a recalled item    *)
(*                                                                         *)
(* Numbers.  JavaScript numbers are modelled as exact rationals <<n, d>>   *)
(* in lowest terms; IEEE-754 rounding is not modelled.                     *)
(* Arrays.  JavaScript arrays are objects: the model keeps them in a heap  *)
(* and the program's state holds references (heap indices), so that two    *)
(* places holding the same array are visible as such.                      *)
(***************************************************************************)
EXTENDS Integers, Sequences, FiniteSets, TLC

VARIABLES
    currentStep,      \* App: index of the mounted slide (0-based)
    beta, rho,        \* DriftSimulator: parameters
    context,          \* DriftSimulator: reference of the current context array
    history,          \* DriftSimulator: sequence of [item, context (reference)]
    step,             \* DriftSimulator: presentation counter
    recalledIndex,    \* RetrievalContiguity: NULL or <<i>>, i a 0-based index
    encodingHistory,  \* RetrievalContiguity: memoised run (empty when unmounted)
    heap,             \* the arrays referenced by the state
    presented,        \* history variable: [index, value] of each presentation since
                      \* the last reset or mount
    tunes,            \* history variable: slider events since the slide was mounted
    event             \* history variable: the last event handled, [op, arg, prev]

vars == <<currentStep, beta, rho, context, history, step, recalledIndex,
          encodingHistory, heap, presented, tunes, event>>

\* ---------------------------------------------------------------- bounds
MaxSteps == 7
MaxTunes == 2
\* how far beyond the two ends of [0, VECTOR_SIZE) an item index is tried
MaxBeyond == 2
\* Slider positions requested by the user, in tenths (the step of the range
\* inputs); -1 and 11 lie beyond the two ends of the track.
SliderRequests == {-1, 6, 8, 11}

\* ------------------------------------------------------------- constants
\* null, for a state of type number | null: NULL, or <<i>> for the number i
NULL == <<>>
ITEMS == <<"Apple", "Beach", "Car", "Dog", "Eagle", "Forest">>
VECTOR_SIZE == 6
SlideCount == 4
DriftSlide == 1
RecencySlide == 2
ContiguitySlide == 3

\* ------------------------------------------------------------- rationals
RECURSIVE GCD(_, _)
GCD(a, b) == IF b = 0 THEN a ELSE GCD(b, a % b)

Norm(n, d) == LET g == GCD(n, d) IN <<n \div g, d \div g>>

Zero == <<0, 1>>
One == <<1, 1>>

Mul(x, y) == Norm(x[1] * y[1], x[2] * y[2])

Add(x, y) ==
    LET l == (x[2] \div GCD(x[2], y[2])) * y[2]
    IN  Norm(x[1] * (l \div x[2]) + y[1] * (l \div y[2]), l)

Tenths(t) == Norm(t, 10)

\* ------------------------------------------------------------------ heap
\* Every operation on arrays takes the heap and returns [heap, ref].
Alloc(h, v) == [heap |-> Append(h, v), ref |-> Len(h) + 1]

\* v.map(val => val * s): a new array
scaleInPlace(h, v, s) ==
    [heap |-> [h EXCEPT ![v] = [i \in 1..Len(h[v]) |-> Mul(h[v][i], s)]], ref |-> v]
scale(h, v, s) == Alloc(h, [i \in 1..Len(h[v]) |-> Mul(h[v][i], s)])

\* v1.map((val, i) => val + v2[i]): a new array
add(h, v1, v2) == Alloc(h, [i \in 1..Len(h[v1]) |-> Add(h[v1][i], h[v2][i])])

\* new Array(size).fill(0)
zeros(h, size) == Alloc(h, [i \in 1..size |-> Zero])

\* new Array(size).fill(0), then v[index] = 1 when index is in range
createItemVectorWrapped(h, index, size) ==
    LET a == zeros(h, size)
    IN  [heap |-> [a.heap EXCEPT ![a.ref][(index % size) + 1] = One], ref |-> a.ref]
createItemVector(h, index, size) ==
    LET a == zeros(h, size)
    IN  IF index >= 0 /\ index < size
        THEN [heap |-> [a.heap EXCEPT ![a.ref][index + 1] = One], ref |-> a.ref]
        ELSE a

\* v1.reduce((sum, val, i) => sum + val * v2[i], 0) on array values
RECURSIVE reduceDot(_, _, _, _)
reduceDot(a, b, i, sum) ==
    IF i > Len(a) THEN sum ELSE reduceDot(a, b, i + 1, Add(sum, Mul(a[i], b[i])))

dot(a, b) == reduceDot(a, b, 1, Zero)

\* Garbage collection: keep the arrays the roots reference, in the order of
\* their first use, and rename the references.  Unobservable by the program;
\* it makes states that differ only in garbage equal.
RECURSIVE Uniq(_, _)
Uniq(s, acc) ==
    IF s = <<>> THEN acc
    ELSE Uniq(Tail(s), IF \E i \in 1..Len(acc) : acc[i] = Head(s)
                       THEN acc ELSE Append(acc, Head(s)))

Rename(u, r) == CHOOSE i \in 1..Len(u) : u[i] = r

Refs(recs) == [i \in 1..Len(recs) |-> recs[i].context]

Collect(h, ctx, hist, enc) ==
    LET u == Uniq(<<ctx>> \o Refs(hist) \o Refs(enc), <<>>)
    IN  [heap            |-> [i \in 1..Len(u) |-> h[u[i]]],
         context         |-> Rename(u, ctx),
         history         |-> [i \in 1..Len(hist) |->
                                 [hist[i] EXCEPT !.context = Rename(u, hist[i].context)]],
         encodingHistory |-> [i \in 1..Len(enc) |->
                                 [enc[i] EXCEPT !.context = Rename(u, enc[i].context)]]]

\* -------------------------------------------------------- DriftSimulator
initialBeta == Tenths(6)
initialRho == Tenths(8)

\* ITEMS[step % ITEMS.length]
currentItemName(s) == ITEMS[(s % Len(ITEMS)) + 1]

\* [...history, record]
spreadReplace(hist, rec) == <<rec>>
spreadAppend(hist, rec) == Append(hist, rec)

\* C_new = rho * C_old + beta * Item_Input, on the values the handler's
\* closure holds: [heap, ref] of newContext
newContextSwapped(h, ctx, itemIdx, r, b) ==
    LET itemVec == createItemVector(h, itemIdx, VECTOR_SIZE)
        decayedContext == scale(itemVec.heap, ctx, b)
        inputContext == scale(decayedContext.heap, itemVec.ref, r)
    IN  add(inputContext.heap, decayedContext.ref, inputContext.ref)
newContext(h, ctx, itemIdx, r, b) ==
    LET itemVec == createItemVector(h, itemIdx, VECTOR_SIZE)
        decayedContext == scale(itemVec.heap, ctx, r)
        inputContext == scale(decayedContext.heap, itemVec.ref, b)
    IN  add(inputContext.heap, decayedContext.ref, inputContext.ref)

\* processNextItem: the state the three setters leave
processNextItem(h, ctx, hist, s, r, b) ==
    LET itemIdx == s % Len(ITEMS)
        nc == newContext(h, ctx, itemIdx, r, b)
    IN  [heap    |-> nc.heap,
         context |-> nc.ref,
         history |-> spreadAppend(hist, [item |-> currentItemName(s), context |-> nc.ref]),
         step    |-> s + 1]

\* reset: setContext(new Array(6).fill(0)); setHistory([]); setStep(0)
resetKeepStep(h, s) ==
    LET z == zeros(h, 6)
    IN  [heap |-> z.heap, context |-> z.ref, history |-> <<>>, step |-> s]
reset(h, s) ==
    LET z == zeros(h, 6)
    IN  [heap |-> z.heap, context |-> z.ref, history |-> <<>>, step |-> 0]

\* <input type="range" min="0" max="1" step="0.1">: the value the control
\* holds for a requested position, in tenths (kept within [min, max])
rangeMin == 0
rangeMax == 10
rangeValueUnbounded(req) == req
rangeValue(req) ==
    IF req < rangeMin THEN rangeMin ELSE IF req > rangeMax THEN rangeMax ELSE req

\* parseFloat(e.target.value)
parseFloat(t) == Tenths(t)

\* ------------------------------------------------------ RetrievalRecency
\* The component has no state: everything below is computed at each render,
\* on arrays local to the render (a heap of its own).
recencyRho == <<3, 5>>
recencyBeta == <<4, 5>>
listLength == 6

\* for (let i = 0; i < listLength; i++) { ...; states.push({...}) }
RECURSIVE statesLoop(_, _, _, _)
statesLoop(h, currentContext, sts, i) ==
    IF i >= listLength
    THEN [heap |-> h, states |-> sts, currentContext |-> currentContext]
    ELSE LET itemVec == createItemVector(h, i, VECTOR_SIZE)
             decayed == scale(itemVec.heap, currentContext, recencyRho)
             input == scale(decayed.heap, itemVec.ref, recencyBeta)
             next == add(input.heap, decayed.ref, input.ref)
         IN  statesLoop(next.heap, next.ref,
                        Append(sts, [item |-> ITEMS[i + 1], contextAtEncoding |-> next.ref]),
                        i + 1)

recencyRun ==
    LET z == zeros(<<>>, VECTOR_SIZE) IN statesLoop(z.heap, z.ref, <<>>, 0)

states == recencyRun.states

firstContext == recencyRun.states[1].contextAtEncoding
endOfListContext == recencyRun.currentContext

\* states.map((state, i) => ({name, similarity: dot(...), index: i}))
similarities ==
    [i \in 1..Len(states) |->
        [name       |-> states[i].item,
         similarity |-> dot(recencyRun.heap[endOfListContext],
                            recencyRun.heap[states[i].contextAtEncoding]),
         index      |-> i - 1]]

\* --------------------------------------------------- RetrievalContiguity
contiguityRho == <<3, 4>>
contiguityBeta == <<3, 5>>

\* the loop of the useMemo callback, from iteration i on
RECURSIVE histLoop(_, _, _, _, _, _)
histLoop(h, ctx, hist, i, r, b) ==
    IF i >= listLength
    THEN [heap |-> h, hist |-> hist]
    ELSE LET itemVec == createItemVector(h, i, VECTOR_SIZE)
             decayed == scale(itemVec.heap, ctx, r)
             input == scale(decayed.heap, itemVec.ref, b)
             next == add(input.heap, decayed.ref, input.ref)
         IN  histLoop(next.heap, next.ref,
                      Append(hist, [item |-> ITEMS[i + 1], context |-> next.ref,
                                    originalIndex |-> i]),
                      i + 1, r, b)

\* useMemo(() => { let ctx = new Array(VECTOR_SIZE).fill(0); ... }, [])
memoEncodingHistory(h, r, b) ==
    LET z == zeros(h, VECTOR_SIZE) IN histLoop(z.heap, z.ref, <<>>, 0, r, b)

\* recalledIndex === null ? encodingHistory[listLength - 1].context
\*                        : encodingHistory[recalledIndex].context
probeAlwaysEnd(enc, recalled) == enc[listLength].context
currentProbeContext(enc, recalled) ==
    IF recalled = NULL
    THEN enc[listLength].context
    ELSE enc[recalled[1] + 1].context

\* encodingHistory.map((entry, i) => ({name, activation, isTarget}))
activationsNoSelf(h, enc, recalled) ==
    [i \in 1..Len(enc) |->
        [name       |-> enc[i].item,
         activation |-> IF <<i - 1>> = recalled THEN Zero
                        ELSE dot(h[currentProbeContext(enc, recalled)], h[enc[i].context]),
         isTarget   |-> (<<i - 1>> = recalled)]]
activations(h, enc, recalled) ==
    [i \in 1..Len(enc) |->
        [name       |-> enc[i].item,
         activation |-> dot(h[currentProbeContext(enc, recalled)], h[enc[i].context]),
         isTarget   |-> (<<i - 1>> = recalled)]]

\* onClick={() => setRecalledIndex(i)} / onClick={() => setRecalledIndex(null)}
recallNeighbour(i) == <<(i + 1) % Len(ITEMS)>>
recall(i) == <<i>>
resetToEnd == NULL

\* -------------------------------------------------------------------- App
\* setCurrentStep(Math.max(0, currentStep - 1)) / Math.min(steps.length - 1, ...)
Max(a, b) == IF a >= b THEN a ELSE b
Min(a, b) == IF a <= b THEN a ELSE b
previousStep(cs) == Max(0, cs - 1)
nextStep(cs) == Min(SlideCount - 1, cs + 1)

\* <CurrentComponent />: the slide left is unmounted and its state is gone;
\* the slide entered is mounted with its useState / useMemo initial values.
\* The state of a slide that is not mounted is kept at these initial values.
mount(cs) ==
    LET z == zeros(<<>>, 6)
        m == IF cs = ContiguitySlide
             THEN memoEncodingHistory(z.heap, contiguityRho, contiguityBeta)
             ELSE [heap |-> z.heap, hist |-> <<>>]
    IN  [heap |-> m.heap, context |-> z.ref, history |-> <<>>, step |-> 0,
         beta |-> initialBeta, rho |-> initialRho,
         recalledIndex |-> NULL, encodingHistory |-> m.hist]

\* ---------------------------------------------------------------- actions
\* the event handled now, after the one handled before
Handled(op, arg) == [op |-> op, arg |-> arg, prev |-> event.op]

Mounted(m) ==
    /\ heap = m.heap
    /\ context = m.context
    /\ history = m.history
    /\ step = m.step
    /\ beta = m.beta
    /\ rho = m.rho
    /\ recalledIndex = m.recalledIndex
    /\ encodingHistory = m.encodingHistory

Init ==
    /\ currentStep = 0
    /\ Mounted(mount(0))
    /\ presented = <<>>
    /\ tunes = 0
    /\ event = [op |-> "init", arg |-> 0, prev |-> "init"]

\* DriftSimulator: click on "Present Item"
Present ==
    /\ currentStep = DriftSlide
    /\ step < MaxSteps
    /\ LET r == processNextItem(heap, context, history, step, rho, beta)
           g == Collect(r.heap, r.context, r.history, encodingHistory)
       IN  /\ heap' = g.heap
           /\ context' = g.context
           /\ history' = g.history
           /\ step' = r.step
           /\ presented' = Append(presented, [index |-> step % Len(ITEMS),
                                               value |-> r.heap[r.context]])
    /\ event' = Handled("present", step % Len(ITEMS))
    /\ UNCHANGED <<currentStep, beta, rho, recalledIndex, encodingHistory, tunes>>

\* DriftSimulator: click on the reset button
Reset ==
    /\ currentStep = DriftSlide
    /\ LET r == reset(heap, step)
           g == Collect(r.heap, r.context, r.history, encodingHistory)
       IN  /\ heap' = g.heap
           /\ context' = g.context
           /\ history' = g.history
           /\ step' = r.step
    /\ presented' = <<>>
    /\ event' = Handled("reset", 0)
    /\ UNCHANGED <<currentStep, beta, rho, recalledIndex, encodingHistory, tunes>>

\* DriftSimulator: the rho slider is moved; onChange stores the control's value
SetRho ==
    /\ currentStep = DriftSlide
    /\ tunes < MaxTunes
    /\ \E req \in SliderRequests :
          /\ rho' = parseFloat(rangeValue(req))
          /\ event' = Handled("setRho", req)
    /\ tunes' = tunes + 1
    /\ UNCHANGED <<currentStep, beta, context, history, step, recalledIndex,
                   encodingHistory, heap, presented>>

\* DriftSimulator: the beta slider is moved
SetBeta ==
    /\ currentStep = DriftSlide
    /\ tunes < MaxTunes
    /\ \E req \in SliderRequests :
          /\ beta' = parseFloat(rangeValue(req))
          /\ event' = Handled("setBeta", req)
    /\ tunes' = tunes + 1
    /\ UNCHANGED <<currentStep, rho, context, history, step, recalledIndex,
                   encodingHistory, heap, presented>>

\* RetrievalContiguity: click on one of the item buttons
RecallAndRebuild ==
    /\ currentStep = ContiguitySlide
    /\ \E i \in 0..(Len(ITEMS) - 1) :
          /\ recalledIndex' = recall(i)
          /\ encodingHistory' = SubSeq(encodingHistory, 1, i + 1)
          /\ event' = Handled("recall", i)
    /\ UNCHANGED <<currentStep, beta, rho, context, history, step, heap, presented,
                   tunes>>
Recall ==
    /\ currentStep = ContiguitySlide
    /\ \E i \in 0..(Len(ITEMS) - 1) :
          /\ recalledIndex' = recall(i)
          /\ event' = Handled("recall", i)
    /\ UNCHANGED <<currentStep, beta, rho, context, history, step,
                   encodingHistory, heap, presented, tunes>>

\* RetrievalContiguity: click on "Reset to End", rendered only while an item
\* is recalled
ResetToEnd ==
    /\ currentStep = ContiguitySlide
    /\ recalledIndex # NULL
    /\ recalledIndex' = resetToEnd
    /\ event' = Handled("resetToEnd", 0)
    /\ UNCHANGED <<currentStep, beta, rho, context, history, step,
                   encodingHistory, heap, presented, tunes>>

Navigate(to, op) ==
    /\ currentStep' = to
    /\ LET m == mount(to)
       IN  /\ heap' = m.heap
           /\ context' = m.context
           /\ history' = m.history
           /\ step' = m.step
           /\ beta' = m.beta
           /\ rho' = m.rho
           /\ recalledIndex' = m.recalledIndex
           /\ encodingHistory' = m.encodingHistory
    /\ presented' = <<>>
    /\ tunes' = 0
    /\ event' = Handled(op, to)

\* App: click on "Previous" (disabled on the first slide)
Previous ==
    /\ currentStep # 0
    /\ Navigate(previousStep(currentStep), "previous")

\* App: click on "Next" (disabled on the last slide)
NextSlide ==
    /\ currentStep # SlideCount - 1
    /\ Navigate(nextStep(currentStep), "next")

Next ==
    \/ Present
    \/ Reset
    \/ SetRho
    \/ SetBeta
    \/ Recall
    \/ ResetToEnd
    \/ Previous
    \/ NextSlide

Spec == Init /\ [][Next]_vars

\* --------------------------------------- two events before a re-render
\* setStep(s => s + 1): the updater, applied to the state queued so far
stepUpdater(s) == s + 1

\* DriftSimulator: two clicks on "Present Item" handled before the component
\* re-renders.  Both handlers run in the closure of the last render, so both
\* read the same context, history, step, rho and beta; the render that
\* follows applies the queued updates in order: the values given to
\* setContext and setHistory replace one another, the updaters of setStep
\* compose.
PresentTwice ==
    /\ currentStep = DriftSlide
    /\ step + 1 < MaxSteps
    /\ LET first == processNextItem(heap, context, history, step, rho, beta)
           second == processNextItem(first.heap, context, history, step, rho, beta)
           g == Collect(second.heap, second.context, second.history, encodingHistory)
       IN  /\ heap' = g.heap
           /\ context' = g.context
           /\ history' = g.history
           /\ step' = stepUpdater(stepUpdater(step))
           /\ presented' = presented \o
                  <<[index |-> step % Len(ITEMS), value |-> first.heap[first.context]],
                    [index |-> step % Len(ITEMS), value |-> second.heap[second.context]]>>
    /\ event' = [op |-> "present", arg |-> step % Len(ITEMS), prev |-> "present"]
    /\ UNCHANGED <<currentStep, beta, rho, recalledIndex, encodingHistory, tunes>>

NextBatched ==
    \/ Next
    \/ PresentTwice

SpecBatched == Init /\ [][NextBatched]_vars

\* ------------------------------------------------ createItemVector alone
\* The item indices createItemVector is applied to: those of the items and
\* MaxBeyond more on either side.
IndexInputs == (0 - MaxBeyond)..(VECTOR_SIZE - 1 + MaxBeyond)

\* how a call completed: normally, with the value returned (no throw in the
\* function's body)
Returned(op, arg, value) ==
    [op |-> op, arg |-> arg, prev |-> event.op,
     result |-> [threw |-> FALSE, value |-> value]]

\* createItemVector(index, VECTOR_SIZE) applied to any index, in any state;
\* the array returned is local to the call
ItemVector ==
    /\ \E index \in IndexInputs :
          LET v == createItemVector(heap, index, VECTOR_SIZE)
          IN  event' = Returned("createItemVector", index, v.heap[v.ref])
    /\ UNCHANGED <<currentStep, beta, rho, context, history, step, recalledIndex,
                   encodingHistory, heap, presented, tunes>>

NextItemVector ==
    \/ ItemVector
    \/ Present
    \/ Reset
    \/ NextSlide

SpecItemVector == Init /\ [][NextItemVector]_vars

\* ------------------------------------------------------------ properties
\* Reference arithmetic on array values, independent of the heap operations.
ZeroVector == [i \in 1..VECTOR_SIZE |-> Zero]
OneHot(index) == [i \in 1..VECTOR_SIZE |-> IF i = index + 1 THEN One ELSE Zero]
Drift(old, r, b, index) ==
    [i \in 1..VECTOR_SIZE |-> Add(Mul(r, old[i]), Mul(b, OneHot(index)[i]))]

\* order on the rationals
Leq(x, y) ==
    LET l == (x[2] \div GCD(x[2], y[2])) * y[2]
    IN  x[1] * (l \div x[2]) <= y[1] * (l \div y[2])

Less(x, y) == ~Leq(y, x)

RECURSIVE Pow(_, _)
Pow(x, n) == IF n = 0 THEN One ELSE Mul(x, Pow(x, n - 1))

\* the context after items 0..p-1 were presented in order to the zero context
ClosedForm(p, r, b) ==
    [j \in 1..VECTOR_SIZE |-> IF j <= p THEN Mul(b, Pow(r, p - j)) ELSE Zero]

RECURSIVE SumTo(_, _)
SumTo(f, n) == IF n = 0 THEN Zero ELSE Add(SumTo(f, n - 1), f[n])
InnerProduct(a, b) == SumTo([j \in 1..VECTOR_SIZE |-> Mul(a[j], b[j])], VECTOR_SIZE)

Snapshot(p) == heap[history[p].context]

\* C1: presenting an item replaces the context by rho * old + beta * itemVector,
\* element-wise and without renormalisation; from the zero context with
\* rho = 0.6 and beta = 0.8, item 0 gives [0.8,0,0,0,0,0] and item 1 next gives
\* [0.48,0.8,0,0,0,0].
C1_UpdateRule ==
    [][event'.op = "present" =>
        /\ heap'[context'] = Drift(heap[context], rho, beta, step % VECTOR_SIZE)
        /\ (rho = <<3, 5>> /\ beta = <<4, 5>> /\ step = 0 /\ heap[context] = ZeroVector)
              => heap'[context'] = <<<<4, 5>>, Zero, Zero, Zero, Zero, Zero>>
        /\ (/\ rho = <<3, 5>> /\ beta = <<4, 5>> /\ step = 1
            /\ heap[context] = <<<<4, 5>>, Zero, Zero, Zero, Zero, Zero>>)
              => heap'[context'] = <<<<12, 25>>, <<4, 5>>, Zero, Zero, Zero, Zero>>
    ]_vars

C1_Witness ==
    /\ event.op = "present"
    /\ step = 2
    /\ rho = <<3, 5>> /\ beta = <<4, 5>>
    /\ heap[context] = <<<<12, 25>>, <<4, 5>>, Zero, Zero, Zero, Zero>>

\* C2: the snapshot stored at position p keeps the value its presentation
\* produced, whatever is presented or tuned afterwards; so do the snapshots of
\* the run the recency slide computes when it renders.
C2_SnapshotIndependence ==
    /\ \A p \in 1..Len(history) :
          /\ p <= Len(presented)
          /\ Snapshot(p) = presented[p].value
    /\ currentStep = RecencySlide =>
          \A p \in 1..Len(states) :
              recencyRun.heap[states[p].contextAtEncoding]
                  = ClosedForm(p, recencyRho, recencyBeta)

C2_Witness ==
    /\ Len(history) >= 3
    /\ tunes >= 1
    /\ event.op = "present"
    /\ Snapshot(1) # heap[context]
    /\ Snapshot(1) # Snapshot(2)

\* C3: the history holds exactly one record per presentation made since the
\* last reset (or mount), in presentation order, at positions 0..n-1.
C3_HistoryContiguity ==
    /\ Len(history) = Len(presented)
    /\ DOMAIN history = 1..Len(presented)
    /\ \A p \in 1..Len(history) :
          /\ presented[p].index = (p - 1) % Len(ITEMS)
          /\ history[p].item = ITEMS[presented[p].index + 1]
          /\ Snapshot(p) = presented[p].value

C3_Witness ==
    /\ Len(history) > Len(ITEMS)
    /\ event.op = "present"

InRange(x) == Leq(Zero, x) /\ Leq(x, One)
Clamped(req) == Max(0, Min(10, req))

\* C4 (as stated): rho and beta always lie in [0,1], and an attempt to set
\* either to a value outside [0,1] is rejected and leaves both unchanged.
C4_Rejected ==
    [][/\ InRange(rho') /\ InRange(beta')
       /\ (event'.op \in {"setRho", "setBeta"} /\ event'.arg \notin 0..10)
             => (rho' = rho /\ beta' = beta)
    ]_vars

\* C4 (amended): rho and beta always lie in [0,1]; a slider request beyond an
\* end of the track is stored as that end's value (0 or 1), the other
\* parameter being left alone.
C4_KeptInRange ==
    /\ InRange(rho) /\ InRange(beta)
    /\ [][/\ InRange(rho') /\ InRange(beta')
          /\ event'.op = "setRho"
                => rho' = Tenths(Clamped(event'.arg)) /\ beta' = beta
          /\ event'.op = "setBeta"
                => beta' = Tenths(Clamped(event'.arg)) /\ rho' = rho
       ]_vars

C4_Witness ==
    /\ event.op = "setRho"
    /\ event.arg = 11
    /\ rho = One

\* C5: reset leaves the zero context, an empty history, next position 0 and
\* the end-of-list probe, from whatever state it is invoked in; the
\* presentation that follows a reset is the first presentation of a new
\* simulation with the current parameters.
C5_ResetAll ==
    /\ event.op = "reset" =>
          /\ heap[context] = ZeroVector
          /\ history = <<>>
          /\ step = 0
          /\ recalledIndex = NULL
    /\ (event.op = "present" /\ event.prev = "reset") =>
          /\ step = 1
          /\ Len(history) = 1
          /\ history[1].item = ITEMS[1]
          /\ Snapshot(1) = [i \in 1..VECTOR_SIZE |-> IF i = 1 THEN beta ELSE Zero]
          /\ heap[context] = Snapshot(1)

C5_Witness ==
    /\ event.op = "present"
    /\ event.prev = "reset"
    /\ tunes = MaxTunes
    /\ beta = <<4, 5>>

\* C6 (as stated): the probe mode starts at end-of-list, becomes Reinstated(k)
\* only through recall(k), and returns to end-of-list only through the
\* reset-to-end action or a full reset.
C6_OnlyRecallAndReset ==
    [][recalledIndex' # recalledIndex =>
          \/ recalledIndex' # NULL /\ event'.op = "recall"
                                   /\ recalledIndex' = <<event'.arg>>
          \/ recalledIndex' = NULL /\ event'.op \in {"resetToEnd", "reset"}
    ]_vars

\* C6 (amended): as stated, except that leaving the contiguity slide also
\* returns the probe mode to end-of-list.
C6_ProbeModeLifecycle ==
    /\ recalledIndex = NULL
    /\ [][/\ recalledIndex' # recalledIndex =>
                \/ recalledIndex' # NULL /\ event'.op = "recall"
                                         /\ recalledIndex' = <<event'.arg>>
                \/ recalledIndex' = NULL
                      /\ \/ event'.op \in {"resetToEnd", "reset"}
                         \/ /\ event'.op \in {"previous", "next"}
                            /\ currentStep = ContiguitySlide
                            /\ currentStep' # ContiguitySlide
          /\ event'.op = "recall" => recalledIndex' = <<event'.arg>>
          /\ event'.op \in {"present", "setRho", "setBeta"}
                => recalledIndex' = recalledIndex
       ]_vars

C6_Witness ==
    /\ event.op = "previous"
    /\ event.prev = "recall"
    /\ recalledIndex = NULL

\* the values of every record of a run, without the references
Records(h, enc) ==
    [i \in 1..Len(enc) |-> [item |-> enc[i].item, snapshot |-> h[enc[i].context],
                            position |-> i - 1]]

\* C7: recall and reset-to-end change the probe mode only: the context and
\* every record of the encoding history are as before; reset-to-end applied
\* in end-of-list mode leaves end-of-list mode.
C7_ProbeOnly ==
    [][/\ event'.op \in {"recall", "resetToEnd"} =>
             /\ heap'[context'] = heap[context]
             /\ Records(heap', history') = Records(heap, history)
             /\ Records(heap', encodingHistory') = Records(heap, encodingHistory)
             /\ Len(encodingHistory') = listLength
             /\ <<beta', rho', step'>> = <<beta, rho, step>>
       /\ recalledIndex = NULL => resetToEnd = recalledIndex
    ]_vars

C7_Witness ==
    /\ event.op = "resetToEnd"
    /\ event.prev = "recall"
    /\ Len(encodingHistory) = listLength

ProbePosition(recalled) == IF recalled = NULL THEN listLength ELSE recalled[1] + 1

\* C8: the activation profile has one entry per record, in position order;
\* entry i is the unnormalised dot product of the probe with snapshot i, the
\* probe being the last snapshot at end-of-list and snapshot k when item k is
\* recalled; the entry of the probe's own record is included.
C8_Activations ==
    /\ currentStep = ContiguitySlide =>
          LET act == activations(heap, encodingHistory, recalledIndex)
              k == ProbePosition(recalledIndex)
          IN  /\ DOMAIN act = DOMAIN encodingHistory
              /\ \A i \in DOMAIN act :
                    /\ act[i].name = ITEMS[i]
                    /\ encodingHistory[i].originalIndex = i - 1
                    /\ act[i].activation =
                          InnerProduct(ClosedForm(k, contiguityRho, contiguityBeta),
                                       ClosedForm(i, contiguityRho, contiguityBeta))
              /\ Less(Zero, act[k].activation)
    /\ currentStep = RecencySlide =>
          /\ DOMAIN similarities = DOMAIN states
          /\ \A i \in DOMAIN similarities :
                /\ similarities[i].name = ITEMS[i]
                /\ similarities[i].index = i - 1
                /\ similarities[i].similarity =
                      InnerProduct(ClosedForm(listLength, recencyRho, recencyBeta),
                                   ClosedForm(i, recencyRho, recencyBeta))

C8_Witness ==
    /\ currentStep = ContiguitySlide
    /\ recalledIndex = <<2>>
    /\ Len(activations(heap, encodingHistory, recalledIndex)) = listLength

\* C9: on the recency slide (items 0..5 presented to the zero context with
\* rho = 0.6, beta = 0.8) the end-of-list activations do not increase with
\* the distance from the last item.
C9_Recency ==
    currentStep = RecencySlide =>
        /\ Len(similarities) = listLength
        /\ \A i \in 1..(listLength - 1) :
              Leq(similarities[i].similarity, similarities[i + 1].similarity)

C9_Witness ==
    /\ currentStep = RecencySlide
    /\ Len(similarities) = 6
    /\ Less(similarities[1].similarity, similarities[6].similarity)

Two == <<2, 1>>
NeighbourBoost(act) ==
    /\ Less(Add(act[1].activation, act[6].activation), Mul(Two, act[2].activation))
    /\ Less(Add(act[1].activation, act[6].activation), Mul(Two, act[4].activation))

\* the six item run of the specification's scenario (rho = 0.6, beta = 0.8)
scenarioRun == memoEncodingHistory(<<>>, recencyRho, recencyBeta)

\* C10: with item 2 recalled, the activations at positions 1 and 3 each exceed
\* the average of the activations at positions 0 and 5, on the run the
\* contiguity slide builds (rho = 0.75, beta = 0.6) and on the run with
\* rho = 0.6, beta = 0.8.
C10_Contiguity ==
    (currentStep = ContiguitySlide /\ recalledIndex = <<2>>) =>
        /\ NeighbourBoost(activations(heap, encodingHistory, recalledIndex))
        /\ NeighbourBoost(activations(scenarioRun.heap, scenarioRun.hist, recalledIndex))

C10_Witness ==
    /\ currentStep = ContiguitySlide
    /\ recalledIndex = <<2>>
    /\ event.op = "recall"
    /\ activations(heap, encodingHistory, recalledIndex)[3].isTarget

\* C11 (as stated): asking for the item vector of an index outside [0, N)
\* fails instead of producing a vector, and leaves context and history as
\* they were.
C11_IndexOutOfRange ==
    [][(event'.op = "createItemVector" /\ event'.arg \notin 0..(VECTOR_SIZE - 1)) =>
          /\ event'.result.threw
          /\ heap'[context'] = heap[context]
          /\ Records(heap', history') = Records(heap, history)
    ]_vars

\* C11 (amended): asking for the item vector of an index outside [0, N) does
\* not fail: it returns the zero vector of dimension N (the one-hot vector
\* for an index inside); the call leaves context and history as they were.
C11_ZeroVectorOutOfRange ==
    [][event'.op = "createItemVector" =>
          /\ ~event'.result.threw
          /\ Len(event'.result.value) = VECTOR_SIZE
          /\ event'.result.value =
                IF event'.arg \in 0..(VECTOR_SIZE - 1)
                THEN OneHot(event'.arg) ELSE ZeroVector
          /\ heap'[context'] = heap[context]
          /\ Records(heap', history') = Records(heap, history)
          /\ step' = step
    ]_vars

C11_Witness ==
    /\ event.op = "createItemVector"
    /\ event.arg = VECTOR_SIZE
    /\ event.result.value = ZeroVector
    /\ Len(history) >= 1

\* C12: in the drift simulator the step counter equals the history length,
\* the current context is the snapshot of the last record (the zero vector
\* when there is none), and the record at position p carries the label
\* ITEMS[p mod 6] and the one-hot index p mod 6, also when two present events
\* are handled before a re-render.
C12_DriftConsistent ==
    currentStep = DriftSlide =>
        /\ step = Len(history)
        /\ heap[context] = IF history = <<>> THEN ZeroVector
                           ELSE Snapshot(Len(history))
        /\ \A p \in 1..Len(history) :
              /\ history[p].item = ITEMS[((p - 1) % Len(ITEMS)) + 1]
              /\ p <= Len(presented)
              /\ presented[p].index = (p - 1) % Len(ITEMS)
====
